---- MODULE Spec2Model ----
(***************************************************************************)
(* A model of data-ingestion/ingest.py: the text normaliser, the chunking  *)
(* engine, the chunk identity and the pipeline that downloads, extracts,   *)
(* chunks, embeds and upserts a fixed corpus of textbooks.                 *)
(*                                                                         *)
(* Text is a TLA+ string; a character is a string of length one.  Python's *)
(* 0-based text[a:b] is Slice(text, a, b) here.                            *)
(***************************************************************************)
EXTENDS Integers, Sequences, FiniteSets, TLC

(***************************************************************************)
(* Configuration (ingest.py, lines 25-51).                                 *)
(***************************************************************************)
CHUNK_SIZE == 1000

CHUNK_OVERLAP == 200

MIN_CHUNK_SIZE == 300

\* The keys of TEXTBOOK_URLS, in the order the dictionary lists them.
TEXTBOOK_URLS ==
    << "Elementary_Algebra_2e", "Prealgebra_2e", "Prealgebra",
       "Calculus_Volume_1", "Intermediate_Algebra_2e", "College_Algebra_2e",
       "Algebra_and_Trigonometry_2e", "Precalculus_2e", "Calculus_Volume_2",
       "Calculus_Volume_3" >>

(***************************************************************************)
(* The state.                                                              *)
(***************************************************************************)
VARIABLES
    OPENAI_API_KEY,     \* lines 44-45: whether the environment sets the key
    PINECONE_API_KEY,
    dirs,               \* whether BASE_DIR and PDF_DIR exist
    pdfs,               \* book -> "absent", "partial" or "complete": its PDF file
    texts,              \* book -> << >> (no file) or << the text file's content >>
    index,              \* the records of the Pinecone index
    pc,                 \* where main() is
    book,               \* the book the current loop of main() is at
    i,                  \* upsert_to_pinecone's batch start
    chunks,             \* process_textbook_to_embeddings' chunks
    download_count,
    extraction_count,
    processed_count,
    summary,            \* << >>, or << what the final summary prints >>
    calls,              \* the calls of this run, in order
    run,                \* the number of this run of main()
    faults,             \* failures and kills so far
    start,              \* what this run found when it started
    done_before,        \* the books an earlier run processed in full
    ck,                 \* one call of chunk_text, step by step
    hashed              \* two calls of generate_chunk_id, step by step

vars ==
    << OPENAI_API_KEY, PINECONE_API_KEY, dirs, pdfs, texts, index, pc, book, i,
       chunks, download_count, extraction_count, processed_count, summary,
       calls, run, faults, start, done_before, ck, hashed >>

pipeline_vars ==
    << OPENAI_API_KEY, PINECONE_API_KEY, dirs, pdfs, texts, index, pc, book, i,
       chunks, download_count, extraction_count, processed_count, summary,
       calls, run, faults, start, done_before, hashed >>

(***************************************************************************)
(* Strings.                                                                *)
(***************************************************************************)
Char(s, ix) == SubSeq(s, ix, ix)

\* Python's s[a:b] for 0 <= a and 0 <= b: the end is clipped to the length.
Slice(s, a, b) ==
    LET hi == IF b > Len(s) THEN Len(s) ELSE b
    IN  IF a >= hi THEN "" ELSE SubSeq(s, a + 1, hi)

CharsOf(s) == { Char(s, ix) : ix \in 1..Len(s) }

Min(S) == CHOOSE x \in S : \A y \in S : x <= y

Max(S) == CHOOSE x \in S : \A y \in S : x >= y

\* Python's \s, on the characters the model's texts are written in.
Whitespace == {" ", "\t", "\n", "\r"}

Digits == CharsOf("0123456789")

LowerCase == CharsOf("abcdefghijklmnopqrstuvwxyz")

UpperCase == CharsOf("ABCDEFGHIJKLMNOPQRSTUVWXYZ")

\* The first position in lo..hi whose character is not in Class, hi + 1 if none.
RECURSIVE FirstNotIn(_, _, _, _)
FirstNotIn(s, lo, hi, Class) ==
    IF lo > hi THEN hi + 1
    ELSE IF lo = hi THEN (IF Char(s, lo) \in Class THEN hi + 1 ELSE lo)
    ELSE LET mid == (lo + hi) \div 2
             l == FirstNotIn(s, lo, mid, Class)
         IN  IF l <= mid THEN l ELSE FirstNotIn(s, mid + 1, hi, Class)

\* The last position in lo..hi whose character is not in Class, lo - 1 if none.
RECURSIVE LastNotIn(_, _, _, _)
LastNotIn(s, lo, hi, Class) ==
    IF lo > hi THEN lo - 1
    ELSE IF lo = hi THEN (IF Char(s, lo) \in Class THEN lo - 1 ELSE lo)
    ELSE LET mid == (lo + hi) \div 2
             r == LastNotIn(s, mid + 1, hi, Class)
         IN  IF r > mid THEN r ELSE LastNotIn(s, lo, mid, Class)

\* The first position in lo..hi whose character is in Class, hi + 1 if none.
RECURSIVE FirstIn(_, _, _, _)
FirstIn(s, lo, hi, Class) ==
    IF lo > hi THEN hi + 1
    ELSE IF lo = hi THEN (IF Char(s, lo) \in Class THEN lo ELSE hi + 1)
    ELSE LET mid == (lo + hi) \div 2
             l == FirstIn(s, lo, mid, Class)
         IN  IF l <= mid THEN l ELSE FirstIn(s, mid + 1, hi, Class)

\* The last position of the run of Class characters that starts at p (p - 1
\* when the character at p is not in Class): a greedy Class* from p.
RunEnd(s, p, Class) == FirstNotIn(s, p, Len(s), Class) - 1

\* str.strip()
Strip(s) ==
    LET a == FirstNotIn(s, 1, Len(s), Whitespace)
        b == LastNotIn(s, 1, Len(s), Whitespace)
    IN  IF a > Len(s) THEN "" ELSE Slice(s, a - 1, b)

\* `sub in s`
Contains(s, sub) ==
    \E ix \in 1..(Len(s) - Len(sub) + 1) : Slice(s, ix - 1, ix - 1 + Len(sub)) = sub

LowerChar(c) ==
    IF c \in UpperCase
    THEN LET k == CHOOSE k \in 1..26 : Char("ABCDEFGHIJKLMNOPQRSTUVWXYZ", k) = c
         IN  Char("abcdefghijklmnopqrstuvwxyz", k)
    ELSE c

\* str.lower()
RECURSIVE LowerRange(_, _, _)
LowerRange(s, lo, hi) ==
    IF lo > hi THEN ""
    ELSE IF lo = hi THEN LowerChar(Char(s, lo))
    ELSE LET mid == (lo + hi) \div 2
         IN  LowerRange(s, lo, mid) \o LowerRange(s, mid + 1, hi)

Lower(s) == LowerRange(s, 1, Len(s))

\* str.isupper(): some cased character, and no lower-case one.
IsUpper(s) ==
    /\ \E ix \in 1..Len(s) : Char(s, ix) \in UpperCase
    /\ \A ix \in 1..Len(s) : Char(s, ix) \notin LowerCase

\* str(n) of a natural number.
RECURSIVE Str(_)
Str(n) ==
    IF n < 10 THEN Char("0123456789", n + 1)
    ELSE Str(n \div 10) \o Char("0123456789", (n % 10) + 1)

\* The matches re.sub replaces: leftmost first, none overlapping.  starts is
\* the set of positions at which the pattern matches and matchEnd[i] the last
\* position of the match that starts at i.
RECURSIVE Spans(_, _, _)
Spans(starts, matchEnd, from) ==
    LET rest == { ix \in starts : ix >= from }
    IN  IF rest = {} THEN << >>
        ELSE LET ix == Min(rest)
             IN  << <<ix, matchEnd[ix]>> >> \o Spans(starts, matchEnd, matchEnd[ix] + 1)

\* s with each span replaced by repl.
RECURSIVE ReplaceSpans(_, _, _, _)
ReplaceSpans(s, spans, from, repl) ==
    IF spans = << >> THEN Slice(s, from - 1, Len(s))
    ELSE Slice(s, from - 1, spans[1][1] - 1) \o repl
             \o ReplaceSpans(s, Tail(spans), spans[1][2] + 1, repl)

(***************************************************************************)
(* clean_text (ingest.py, lines 163-189).                                  *)
(***************************************************************************)
\* Line 174, re.sub(r'\s+', ' ', text): every run of whitespace, line breaks
\* included, becomes one space.
RECURSIVE CollapseRange(_, _, _)
CollapseRange(s, lo, hi) ==
    IF lo > hi THEN ""
    ELSE IF lo = hi
         THEN IF Char(s, lo) \in Whitespace
              THEN (IF lo > 1 /\ Char(s, lo - 1) \in Whitespace THEN "" ELSE " ")
              ELSE Char(s, lo)
    ELSE LET mid == (lo + hi) \div 2
         IN  CollapseRange(s, lo, mid) \o CollapseRange(s, mid + 1, hi)

CollapseWhitespace(s) == CollapseRange(s, 1, Len(s))

\* The last position of a match of \d+\s*\n that starts at p, 0 if there is
\* none: the digits, then the whitespace up to its last line break.
DigitsThenBreak(s, p) ==
    LET d == RunEnd(s, p, Digits)
        w == RunEnd(s, d + 1, Whitespace)
        breaks == { j \in (d + 1)..w : Char(s, j) = "\n" }
    IN  IF d >= p /\ breaks # {} THEN Max(breaks) ELSE 0

\* Line 177, re.sub(r'\n\d+\s*\n', '\n', text).
RemovePageNumbers(s) ==
    LET matchEnd == [ ix \in 1..Len(s) |->
                        IF Char(s, ix) = "\n" THEN DigitsThenBreak(s, ix + 1) ELSE 0 ]
        starts == { ix \in 1..Len(s) : Char(s, ix) = "\n" /\ matchEnd[ix] > 0 }
    IN  ReplaceSpans(s, Spans(starts, matchEnd, 1), 1, "\n")

\* Line 178, re.sub(r'\n\s*Page \d+\s*\n', '\n', text).
RemovePageFooters(s) ==
    LET PageEnd(ix) ==
            LET p == RunEnd(s, ix + 1, Whitespace) + 1
            IN  IF Slice(s, p - 1, p + 4) = "Page " THEN DigitsThenBreak(s, p + 5) ELSE 0
        matchEnd == [ ix \in 1..Len(s) |-> IF Char(s, ix) = "\n" THEN PageEnd(ix) ELSE 0 ]
        starts == { ix \in 1..Len(s) : Char(s, ix) = "\n" /\ matchEnd[ix] > 0 }
    IN  ReplaceSpans(s, Spans(starts, matchEnd, 1), 1, "\n")

\* The characters the URL pattern repeats: letters, digits, the range [$-_]
\* (every ASCII character from '$' to '_'), and ! * \ ( ) ,
UrlChars ==
    LowerCase \cup CharsOf("$%&'()*+,-./0123456789:;<=>?@ABCDEFGHIJKLMNOPQRSTUVWXYZ[\\]^_")
              \cup CharsOf("!*\\(),")

\* Line 181, re.sub(r'http[s]?://(?:...)+', '', text).
RemoveUrls(s) ==
    LET Body(ix) == IF Slice(s, ix - 1, ix + 6) = "http://" THEN ix + 7
                   ELSE IF Slice(s, ix - 1, ix + 7) = "https://" THEN ix + 8
                   ELSE 0
        UrlEnd(ix) == IF Body(ix) = 0 \/ Body(ix) > Len(s) THEN 0
                     ELSE IF Char(s, Body(ix)) \in UrlChars
                          THEN RunEnd(s, Body(ix), UrlChars) ELSE 0
        matchEnd == [ ix \in 1..Len(s) |-> IF Char(s, ix) = "h" THEN UrlEnd(ix) ELSE 0 ]
        starts == { ix \in 1..Len(s) : Char(s, ix) = "h" /\ matchEnd[ix] > 0 }
    IN  ReplaceSpans(s, Spans(starts, matchEnd, 1), 1, "")

\* Line 182, re.sub(r'\S+@\S+', '', text): a run of non-whitespace that has an
\* '@' with a character before it and one after it is removed whole.
RemoveEmails(s) ==
    LET WordEnd(ix) == FirstIn(s, ix, Len(s), Whitespace) - 1
        EmailEnd(ix) == IF \E j \in (ix + 1)..(WordEnd(ix) - 1) : Char(s, j) = "@"
                       THEN WordEnd(ix) ELSE 0
        WordStart(ix) == /\ Char(s, ix) \notin Whitespace
                        /\ (ix = 1 \/ Char(s, ix - 1) \in Whitespace)
        matchEnd == [ ix \in 1..Len(s) |-> IF WordStart(ix) THEN EmailEnd(ix) ELSE 0 ]
        starts == { ix \in 1..Len(s) : WordStart(ix) /\ matchEnd[ix] > 0 }
    IN  ReplaceSpans(s, Spans(starts, matchEnd, 1), 1, "")

\* Lines 185-187: line 185 replaces '"' by '"'; line 186's pattern is the two
\* adjacent literals r'[' and a back-quote followed by ']', the class of the
\* back-quote alone, replaced by "'"; line 187 replaces the em and the en dash
\* by '-'.  A TLA+ string holds neither a back-quote nor a non-ASCII
\* character, so on every text of this model the three lines change nothing.
NormalizeQuotes(s) == s

clean_text(text) ==
    Strip(NormalizeQuotes(RemoveEmails(RemoveUrls(
        RemovePageFooters(RemovePageNumbers(CollapseWhitespace(text)))))))

(***************************************************************************)
(* chunk_text (ingest.py, lines 191-306).                                  *)
(***************************************************************************)
\* The last position in lo..hi whose character is in Class, lo - 1 if none.
RECURSIVE LastIn(_, _, _, _)
LastIn(s, lo, hi, Class) ==
    IF lo > hi THEN lo - 1
    ELSE IF lo = hi THEN (IF Char(s, lo) \in Class THEN lo ELSE lo - 1)
    ELSE LET mid == (lo + hi) \div 2
             r == LastIn(s, mid + 1, hi, Class)
         IN  IF r > mid THEN r ELSE LastIn(s, lo, mid, Class)

\* s.split()[-k:] of the first hi characters of s: the last k words, in order.
RECURSIVE LastWords(_, _, _)
LastWords(s, hi, k) ==
    LET e == LastNotIn(s, 1, hi, Whitespace)
        b == LastIn(s, 1, e, Whitespace) + 1
    IN  IF k = 0 \/ e < 1 THEN << >>
        ELSE Append(LastWords(s, b - 1, k - 1), Slice(s, b - 1, e))

\* " ".join(words)
RECURSIVE JoinWords(_)
JoinWords(words) ==
    IF words = << >> THEN ""
    ELSE IF Len(words) = 1 THEN words[1]
    ELSE JoinWords(SubSeq(words, 1, Len(words) - 1)) \o " " \o words[Len(words)]

\* Line 206, clean_text_content.split('\n\n').
RECURSIVE Pieces(_, _, _)
Pieces(s, spans, from) ==
    IF spans = << >> THEN << Slice(s, from - 1, Len(s)) >>
    ELSE << Slice(s, from - 1, spans[1][1] - 1) >>
             \o Pieces(s, Tail(spans), spans[1][2] + 1)

SplitParagraphs(s) ==
    LET starts == { ix \in 1..(Len(s) - 1) : Slice(s, ix - 1, ix + 1) = "\n\n" }
    IN  Pieces(s, Spans(starts, [ ix \in starts |-> ix + 1 ], 1), 1)

\* Lines 206 and 213-216: the paragraphs of s that the loop does not skip.
NonEmptyParagraphs(s) ==
    SelectSeq(SplitParagraphs(s), LAMBDA paragraph : Strip(paragraph) # "")

\* One entry of the list chunk_text returns.
Chunk(text, book_name, chapter, section, chunk_id) ==
    [ text |-> text,
      metadata |-> [ book |-> book_name, chapter |-> chapter,
                     section |-> section, chunk_id |-> chunk_id ] ]

\* Lines 208-211: the loop's variables before the first paragraph.
LoopStart ==
    [ current_chunk |-> "", current_chapter |-> "Introduction",
      current_section |-> "", chunk_count |-> 0, chunks |-> << >> ]

\* Line 223, re.match(r'^\d+\.', paragraph).
StartsNumbered(paragraph) ==
    LET d == RunEnd(paragraph, 1, Digits)
    IN  d >= 1 /\ d < Len(paragraph) /\ Char(paragraph, d + 1) = "."

\* Lines 219-223: the heading test.
IsHeading(paragraph) ==
    /\ Len(paragraph) < 100
    /\ \/ Contains(Lower(paragraph), "chapter")
       \/ Contains(Lower(paragraph), "section")
       \/ IsUpper(paragraph)
       \/ StartsNumbered(paragraph)

\* Lines 227-236, 252-261 and 274-282: append the accumulator as a chunk.
Emit(v, book_name) ==
    Append(v.chunks, Chunk(Strip(v.current_chunk), book_name, v.current_chapter,
                           v.current_section, v.chunk_count))

\* HeadingStep with every heading written to both labels: C20_HeadingFrame
\* must tell it from lines 240-244.
HeadingStep_both(v, paragraph, book_name) ==
    LET flushed == IF Len(v.current_chunk) >= MIN_CHUNK_SIZE
                   THEN [ v EXCEPT !.chunks = Emit(v, book_name),
                                   !.chunk_count = v.chunk_count + 1,
                                   !.current_chunk = "" ]
                   ELSE v
    IN  [ flushed EXCEPT !.current_chapter = paragraph, !.current_section = paragraph ]

\* Lines 225-246: a heading flushes a substantial accumulator and updates the
\* chapter or the section label.
HeadingStep(v, paragraph, book_name) ==
    LET flushed == IF Len(v.current_chunk) >= MIN_CHUNK_SIZE
                   THEN [ v EXCEPT !.chunks = Emit(v, book_name),
                                   !.chunk_count = v.chunk_count + 1,
                                   !.current_chunk = "" ]
                   ELSE v
    IN  IF Contains(Lower(paragraph), "chapter")
        THEN [ flushed EXCEPT !.current_chapter = paragraph, !.current_section = "" ]
        ELSE [ flushed EXCEPT !.current_section = paragraph ]

\* BodyStep emptying an accumulator that is too small to flush where lines
\* 266-268 add the paragraph to it: C18_NoParagraphLost must tell the two apart.
BodyStep_discard(v, paragraph, book_name) ==
    IF Len(v.current_chunk) + Len(paragraph) + 2 > CHUNK_SIZE
    THEN IF Len(v.current_chunk) >= MIN_CHUNK_SIZE
         THEN [ v EXCEPT !.chunks = Emit(v, book_name),
                         !.chunk_count = v.chunk_count + 1,
                         !.current_chunk =
                             JoinWords(LastWords(v.current_chunk, Len(v.current_chunk), 30))
                                 \o "\n\n" \o paragraph \o "\n\n" ]
         ELSE [ v EXCEPT !.current_chunk = "" ]
    ELSE [ v EXCEPT !.current_chunk = v.current_chunk \o paragraph \o "\n\n" ]

\* Lines 248-270: a body paragraph is appended, after a flush (with the last
\* 30 words carried over) when it would overflow a substantial accumulator.
BodyStep(v, paragraph, book_name) ==
    IF Len(v.current_chunk) + Len(paragraph) + 2 > CHUNK_SIZE
    THEN IF Len(v.current_chunk) >= MIN_CHUNK_SIZE
         THEN [ v EXCEPT !.chunks = Emit(v, book_name),
                         !.chunk_count = v.chunk_count + 1,
                         !.current_chunk =
                             JoinWords(LastWords(v.current_chunk, Len(v.current_chunk), 30))
                                 \o "\n\n" \o paragraph \o "\n\n" ]
         ELSE [ v EXCEPT !.current_chunk = v.current_chunk \o paragraph \o "\n\n" ]
    ELSE [ v EXCEPT !.current_chunk = v.current_chunk \o paragraph \o "\n\n" ]

\* Lines 213-270: one iteration of the loop over the paragraphs.
ParagraphStep(v, raw, book_name) ==
    LET paragraph == Strip(raw)
    IN  IF paragraph = "" THEN v
        ELSE IF IsHeading(paragraph) THEN HeadingStep(v, paragraph, book_name)
        ELSE BodyStep(v, paragraph, book_name)

\* The last chunk with the test of line 226, on the accumulator as it stands
\* (its trailing separator counted): C11_MinimumSize must tell it from line 273.
FinalFlush_unstripped(v, book_name) ==
    IF Len(v.current_chunk) >= MIN_CHUNK_SIZE
    THEN [ v EXCEPT !.chunks = Emit(v, book_name) ]
    ELSE v

\* Lines 272-282: the last chunk.
FinalFlush(v, book_name) ==
    IF Len(Strip(v.current_chunk)) >= MIN_CHUNK_SIZE
    THEN [ v EXCEPT !.chunks = Emit(v, book_name) ]
    ELSE v

\* Lines 213-270: the loop over paragraphs[lo..hi], from the variables v.
RECURSIVE ParagraphLoop(_, _, _, _, _)
ParagraphLoop(v, paragraphs, lo, hi, book_name) ==
    IF lo > hi THEN v
    ELSE IF lo = hi THEN ParagraphStep(v, paragraphs[lo], book_name)
    ELSE LET mid == (lo + hi) \div 2
             first == ParagraphLoop(v, paragraphs, lo, mid, book_name)
         IN  \* (the test has TLC evaluate the first half before the second)
             IF first.chunk_count >= 0
             THEN ParagraphLoop(first, paragraphs, mid + 1, hi, book_name)
             ELSE first

\* chunk_text without its fallback: C16_NotOversized must tell it from
\* line 285.
NeedsFallback_never(chunk_list, clean_text_content) == FALSE

\* The fallback's condition with "at least" for "longer than":
\* C13_FallbackRule must tell it from line 285.
NeedsFallback_at_limit(chunk_list, clean_text_content) ==
    Len(chunk_list) < 5 /\ Len(clean_text_content) >= CHUNK_SIZE * 2

\* Line 285: the fallback's condition.
NeedsFallback(chunk_list, clean_text_content) ==
    Len(chunk_list) < 5 /\ Len(clean_text_content) > CHUNK_SIZE * 2

\* Lines 287-288: the fallback starts from no chunks and a count of 0.
FallbackStart == [ chunks |-> << >>, chunk_count |-> 0 ]

\* FallbackStep keeping only the windows of CHUNK_SIZE characters:
\* C14_Windows must tell it from line 294.
FallbackStep_full_only(f, clean_text_content, ix, book_name) ==
    LET chunk_text_content == Slice(clean_text_content, ix, ix + CHUNK_SIZE)
    IN  IF Len(chunk_text_content) >= CHUNK_SIZE
        THEN [ chunks |-> Append(f.chunks,
                   Chunk(chunk_text_content, book_name,
                         "Section " \o Str((f.chunk_count \div 10) + 1),
                         "Part " \o Str((f.chunk_count % 10) + 1),
                         f.chunk_count)),
               chunk_count |-> f.chunk_count + 1 ]
        ELSE f

\* FallbackStep without line 304's chunk_count += 1: C10_ChunkIds must tell
\* it from the code's.
FallbackStep_no_increment(f, clean_text_content, ix, book_name) ==
    LET chunk_text_content == Slice(clean_text_content, ix, ix + CHUNK_SIZE)
    IN  IF Len(chunk_text_content) >= MIN_CHUNK_SIZE
        THEN [ chunks |-> Append(f.chunks,
                   Chunk(chunk_text_content, book_name,
                         "Section " \o Str((f.chunk_count \div 10) + 1),
                         "Part " \o Str((f.chunk_count % 10) + 1),
                         f.chunk_count)),
               chunk_count |-> f.chunk_count ]
        ELSE f

\* Lines 292-304: the window that starts at character i.
FallbackStep(f, clean_text_content, ix, book_name) ==
    LET chunk_text_content == Slice(clean_text_content, ix, ix + CHUNK_SIZE)
    IN  IF Len(chunk_text_content) >= MIN_CHUNK_SIZE
        THEN [ chunks |-> Append(f.chunks,
                   Chunk(chunk_text_content, book_name,
                         "Section " \o Str((f.chunk_count \div 10) + 1),
                         "Part " \o Str((f.chunk_count % 10) + 1),
                         f.chunk_count)),
               chunk_count |-> f.chunk_count + 1 ]
        ELSE f

\* Line 291: range(0, len(clean_text_content), CHUNK_SIZE - CHUNK_OVERLAP) has
\* this many values, the multiples of the stride from 0.
Windows(clean_text_content) ==
    (Len(clean_text_content) + (CHUNK_SIZE - CHUNK_OVERLAP) - 1)
        \div (CHUNK_SIZE - CHUNK_OVERLAP)

\* Lines 291-304: the loop over the windows numbered lo..hi, from f.
RECURSIVE FallbackLoop(_, _, _, _, _)
FallbackLoop(f, clean_text_content, lo, hi, book_name) ==
    IF lo > hi THEN f
    ELSE IF lo = hi
         THEN FallbackStep(f, clean_text_content, lo * (CHUNK_SIZE - CHUNK_OVERLAP), book_name)
    ELSE LET mid == (lo + hi) \div 2
             first == FallbackLoop(f, clean_text_content, lo, mid, book_name)
         IN  \* (the test has TLC evaluate the first half before the second)
             IF first.chunk_count >= 0
             THEN FallbackLoop(first, clean_text_content, mid + 1, hi, book_name)
             ELSE first

chunk_text(text, book_name) ==
    LET clean_text_content == clean_text(text)
        paragraphs == SplitParagraphs(clean_text_content)
        chunk_list == FinalFlush(ParagraphLoop(LoopStart, paragraphs, 1, Len(paragraphs),
                                           book_name), book_name).chunks
    IN  IF NeedsFallback(chunk_list, clean_text_content)
        THEN FallbackLoop(FallbackStart, clean_text_content, 0,
                          Windows(clean_text_content) - 1, book_name).chunks
        ELSE chunk_list

(***************************************************************************)
(* create_embedding, generate_chunk_id and the inner loop of               *)
(* upsert_to_pinecone (ingest.py, lines 308-398).                          *)
(***************************************************************************)
max_tokens == 8000

batch_size == 100

\* What create_embedding returns when the call fails (line 340).
None == << >>

\* The embedding backend: the vector is a function of the text it is given.
Embedding(input) == << "embedding", input >>

\* Lines 318-340.  response_ok: the backend answers; otherwise the call raises
\* and the function returns None.
create_embedding(text, response_ok) ==
    LET estimated_tokens == Len(text) \div 4
        input == IF estimated_tokens > max_tokens
                 THEN Slice(text, 0, max_tokens * 4) ELSE text
    IN  IF response_ok THEN Embedding(input) ELSE None

\* hashlib.md5(...).hexdigest(), taken to be free of collisions.
md5(content) == << "md5", content >>

\* generate_chunk_id with the run's number in the hashed content, so that a
\* later run computes other ids: C3_NoDuplicates must tell it from the code's.
generate_chunk_id_per_run(chunk) ==
    md5(chunk.metadata.book \o "_" \o Str(chunk.metadata.chunk_id) \o "_"
            \o Slice(chunk.text, 0, 100) \o "_" \o Str(run))

\* generate_chunk_id over the first 99 characters of the text:
\* C15_IdInjective must tell it from line 352's text[:100].
generate_chunk_id_99(chunk) ==
    md5(chunk.metadata.book \o "_" \o Str(chunk.metadata.chunk_id) \o "_"
            \o Slice(chunk.text, 0, 99))

\* Lines 352-353.
generate_chunk_id(chunk) ==
    md5(chunk.metadata.book \o "_" \o Str(chunk.metadata.chunk_id) \o "_"
            \o Slice(chunk.text, 0, 100))

\* An entry of the log of calls of one run.  op names the function or the
\* external call, at is the chunk's position in the document's list (embed,
\* sleep) or the batch's first position (upsert), vectors the upsert's payload.
Call(op, book_name, at, ok, vectors) ==
    [ op |-> op, book |-> book_name, at |-> at, ok |-> ok, vectors |-> vectors ]

\* EmbedStep without lines 383-384 (if embedding is None: continue):
\* C7_EmbeddingIsolation must tell it from the code's.
EmbedStep_unchecked(acc, chunk, at, response_ok) ==
    LET embedding == create_embedding(chunk.text, response_ok)
        called == Append(acc.calls, Call("embed", chunk.metadata.book, at, response_ok, << >>))
    IN  [ vectors |-> Append(acc.vectors,
              [ id |-> generate_chunk_id(chunk),
                values |-> embedding,
                metadata |-> [ book |-> chunk.metadata.book,
                               chapter |-> chunk.metadata.chapter,
                               section |-> chunk.metadata.section,
                               chunk_id |-> chunk.metadata.chunk_id,
                               text |-> Slice(chunk.text, 0, 1000) ] ]),
          calls |-> Append(called, Call("sleep", chunk.metadata.book, at, TRUE, << >>)) ]

\* Lines 380-398: one chunk of the batch.  acc holds the batch's vectors and
\* the calls made so far; at is the chunk's position in the document's list.
EmbedStep(acc, chunk, at, response_ok) ==
    LET embedding == create_embedding(chunk.text, response_ok)
        called == Append(acc.calls, Call("embed", chunk.metadata.book, at, response_ok, << >>))
    IN  IF embedding = None
        THEN [ acc EXCEPT !.calls = called ]
        ELSE [ vectors |-> Append(acc.vectors,
                   [ id |-> generate_chunk_id(chunk),
                     values |-> embedding,
                     metadata |-> [ book |-> chunk.metadata.book,
                                    chapter |-> chunk.metadata.chapter,
                                    section |-> chunk.metadata.section,
                                    chunk_id |-> chunk.metadata.chunk_id,
                                    text |-> Slice(chunk.text, 0, 1000) ] ]),
               calls |-> Append(called, Call("sleep", chunk.metadata.book, at, TRUE, << >>)) ]

\* Lines 380-398: the loop over batch[lo..hi], from acc.  The batch starts at
\* position i of the document's list; failing holds the offsets in the batch
\* of the chunks whose embedding fails.
RECURSIVE EmbedBatch(_, _, _, _, _, _)
EmbedBatch(acc, batch, lo, hi, ix, failing) ==
    IF lo > hi THEN acc
    ELSE IF lo = hi THEN EmbedStep(acc, batch[lo], ix + lo - 1, (lo - 1) \notin failing)
    ELSE LET mid == (lo + hi) \div 2
             first == EmbedBatch(acc, batch, lo, mid, ix, failing)
         IN  \* (the test has TLC evaluate the first half before the second)
             IF Len(first.calls) >= 0
             THEN EmbedBatch(first, batch, mid + 1, hi, ix, failing)
             ELSE first

\* Line 376: the batch starts with no vectors.
BatchStart == [ vectors |-> << >>, calls |-> << >> ]

\* index.upsert(vectors=vectors) (line 403): a record with the id of a stored
\* one replaces it.
Upserted(records, vectors) ==
    LET ids == { vectors[k].id : k \in 1..Len(vectors) }
    IN  { r \in records : r.id \notin ids } \cup { vectors[k] : k \in 1..Len(vectors) }

(***************************************************************************)
(* The corpus and the bounds of the model.                                 *)
(***************************************************************************)
\* The books of TEXTBOOK_URLS the model runs over: its first NumBooks keys.
NumBooks == 2

\* The runs of main() in one behaviour.
MaxRuns == 2

\* The failures of external calls, and the kills of a run, in one behaviour.
MaxFaults == 1

\* Only the chunks at offsets 0..MaxFailOffset of a batch may fail to embed.
MaxFailOffset == 1

Books == 1..NumBooks

RECURSIVE Repeat(_, _)
Repeat(w, k) ==
    IF k = 0 THEN "" ELSE IF k = 1 THEN w
    ELSE Repeat(w, k \div 2) \o Repeat(w, k - (k \div 2))

\* n characters of prose.
Prose(n) == Slice(Repeat("lorem ipsum dolor sit amet ", (n \div 27) + 1), 0, n)

\* The length of the text of each page of each book's PDF: the first book
\* chunks into more than one batch, the others into less than one.
PageLengths ==
    << <<40200, 40200>>, <<2500>>, <<350>>, <<1200, 1300>>, <<299>>,
       <<2000>>, <<5000>>, <<300>>, <<2001>>, <<40>> >>

\* What page.extract_text() returns for page p of book b.
PageText(b, p) ==
    Slice(TEXTBOOK_URLS[b] \o " page " \o Str(p) \o " " \o Prose(PageLengths[b][p]),
          0, PageLengths[b][p])

\* Line 149, "\n\n".join(text_content), text_content being the text of the
\* pages in read among the first n pages of book b.
RECURSIVE JoinPages(_, _, _)
JoinPages(b, n, read) ==
    IF n = 0 THEN ""
    ELSE LET before == JoinPages(b, n - 1, read)
         IN  IF n \notin read \/ PageText(b, n) = "" THEN before
             ELSE IF \E m \in read : m < n /\ PageText(b, m) # ""
                  THEN before \o "\n\n" \o PageText(b, n)
                  ELSE PageText(b, n)

PagesOf(b) == 1..Len(PageLengths[b])

FullText(b) == JoinPages(b, Len(PageLengths[b]), PagesOf(b))

\* chunk_text over every text a book's text file can hold.  (@@ makes TLC
\* evaluate the table once instead of at every use.)
ChunkTable ==
    [ x \in UNION { { <<b, JoinPages(b, Len(PageLengths[b]), read)>> :
                          read \in SUBSET PagesOf(b) } : b \in Books }
        |-> chunk_text(x[2], TEXTBOOK_URLS[x[1]]) ] @@ << >>

Name(b) == TEXTBOOK_URLS[b]

\* chunk_text(text, Name(b)), looked up.
Chunked(b, text) == ChunkTable[<<b, text>>]

(***************************************************************************)
(* download_pdf and extract_text_from_pdf (ingest.py, lines 58-161).       *)
(* A call returns [ok] or raises; both functions catch every Exception, so *)
(* raised is FALSE in what they return.                                    *)
(***************************************************************************)
\* How the fetch of a PDF can end: the whole body is written; requests.get or
\* raise_for_status raises (lines 78-79), before the file is opened; or the
\* body's stream raises (lines 85-91) after open(pdf_path, 'wb') made the file.
DownloadOutcomes == {"ok", "http_error", "stream_error"}

\* download_pdf without the try/except of lines 76-99: a failed fetch raises
\* into main().  C6_DocumentIsolation must tell it from the code's.
download_pdf_uncaught(b, pdf, outcome) ==
    IF pdf # "absent"
    THEN [ pdf |-> pdf, ok |-> TRUE, raised |-> FALSE, calls |-> << >> ]
    ELSE [ pdf |-> CASE outcome = "ok" -> "complete"
                     [] outcome = "http_error" -> "absent"
                     [] outcome = "stream_error" -> "partial",
           ok |-> outcome = "ok",
           raised |-> outcome # "ok",
           calls |-> << Call("fetch", Name(b), 0, outcome = "ok", << >>) >> ]

\* download_pdf without the test of lines 72-74 (skip if the PDF exists):
\* C9_ForwardOnly must tell it from the code's.
download_pdf_always(b, pdf, outcome) ==
    [ pdf |-> CASE outcome = "ok" -> "complete"
                [] outcome = "http_error" -> pdf
                [] outcome = "stream_error" -> "partial",
      ok |-> outcome = "ok",
      raised |-> FALSE,
      calls |-> << Call("fetch", Name(b), 0, outcome = "ok", << >>) >> ]

\* Lines 69-99.  pdf is the state of the book's PDF file.
download_pdf(b, pdf, outcome) ==
    IF pdf # "absent"
    THEN [ pdf |-> pdf, ok |-> TRUE, raised |-> FALSE, calls |-> << >> ]
    ELSE [ pdf |-> CASE outcome = "ok" -> "complete"
                     [] outcome = "http_error" -> "absent"
                     [] outcome = "stream_error" -> "partial",
           ok |-> outcome = "ok",
           raised |-> FALSE,
           calls |-> << Call("fetch", Name(b), 0, outcome = "ok", << >>) >> ]

\* Lines 111-161.  text is << >> or << the text file's content >>.  outcome:
\* whether pdfplumber.open opens the file, the pages it finds in it, and the
\* pages whose extract_text() returns text (the others raise or return none).
extract_text_from_pdf(b, pdf, text, outcome) ==
    IF text # << >>
    THEN [ text |-> text, ok |-> TRUE, raised |-> FALSE, calls |-> << >> ]
    ELSE IF pdf = "absent"
    THEN [ text |-> text, ok |-> FALSE, raised |-> FALSE, calls |-> << >> ]
    ELSE IF ~outcome.opens
    THEN [ text |-> text, ok |-> FALSE, raised |-> FALSE,
           calls |-> << Call("open_pdf", Name(b), 0, FALSE, << >>) >> ]
    ELSE [ text |-> << JoinPages(b, outcome.pages, outcome.read) >>,
           ok |-> TRUE, raised |-> FALSE,
           calls |-> << Call("open_pdf", Name(b), 0, TRUE, << >>) >> ]

\* What pdfplumber can make of a PDF file: a complete file opens, or fails
\* to, with all its pages; a file cut short fails to open or opens with
\* fewer pages.
ExtractOutcomes(b, pdf) ==
    LET n == Len(PageLengths[b])
        found == IF pdf = "complete" THEN {n} ELSE 0..(n - 1)
    IN  { [ opens |-> FALSE, pages |-> 0, read |-> {} ] } \cup
        UNION { { [ opens |-> TRUE, pages |-> k, read |-> r ] : r \in SUBSET (1..k) } :
                    k \in found }

\* The failures an extraction's outcome counts for: a complete file that
\* does not open, and each page found but not read.
ExtractFaults(pdf, outcome) ==
    IF ~outcome.opens THEN (IF pdf = "complete" THEN 1 ELSE 0)
    ELSE outcome.pages - Cardinality(outcome.read)

(***************************************************************************)
(* main (ingest.py, lines 459-521).                                        *)
(***************************************************************************)
\* The check of lines 468-474 without its second test (lines 472-474):
\* C8_MissingCredential must tell it from the code's.
KeysConfigured_one == OPENAI_API_KEY

\* Lines 468-474.
KeysConfigured == OPENAI_API_KEY /\ PINECONE_API_KEY

\* What a run finds when it starts.
Found(t, idx) == [ texts |-> { b \in Books : t[b] # << >> }, index_empty |-> idx = {} ]

\* The ids of the vectors the log's successful upsert calls carried.
UpsertedIds(log) ==
    UNION { { log[n].vectors[m].id : m \in 1..Len(log[n].vectors) } :
                n \in { n \in 1..Len(log) : log[n].op = "upsert" /\ log[n].ok } }

\* The books whose every chunk the run with this log embedded and upserted.
ProcessedInFull(log, t) ==
    LET ids == UpsertedIds(log)
    IN  { b \in Books :
            /\ t[b] # << >>
            /\ Chunked(b, t[b][1]) # << >>
            /\ \A k \in 1..Len(Chunked(b, t[b][1])) :
                   generate_chunk_id(Chunked(b, t[b][1])[k]) \in ids }

\* Lines 465-476.
Main_Start ==
    /\ pc = "start"
    /\ dirs' = TRUE
    /\ pc' = IF KeysConfigured THEN "phase1" ELSE "aborted"
    /\ UNCHANGED << OPENAI_API_KEY, PINECONE_API_KEY, pdfs, texts, index, book, i,
                    chunks, download_count, extraction_count, processed_count,
                    summary, calls, run, faults, start, done_before, ck, hashed >>

\* Lines 481-483: one iteration of the loop of phase 1.
Phase1_Download ==
    /\ pc = "phase1"
    /\ \E outcome \in DownloadOutcomes :
         LET r == download_pdf(book, pdfs[book], outcome)
             failed == pdfs[book] = "absent" /\ outcome # "ok"
         IN  /\ pdfs[book] # "absent" => outcome = "ok"
             /\ failed => faults < MaxFaults
             /\ faults' = IF failed THEN faults + 1 ELSE faults
             /\ pdfs' = [ pdfs EXCEPT ![book] = r.pdf ]
             /\ calls' = calls \o r.calls
                            \o << Call("download_pdf", Name(book), 0, r.ok, << >>) >>
             /\ download_count' = IF r.ok THEN download_count + 1 ELSE download_count
             /\ IF r.raised THEN pc' = "crashed" /\ book' = book
                ELSE IF book = NumBooks THEN pc' = "phase2" /\ book' = 1
                ELSE pc' = pc /\ book' = book + 1
    /\ UNCHANGED << OPENAI_API_KEY, PINECONE_API_KEY, dirs, texts, index, i, chunks,
                    extraction_count, processed_count, summary, run, start,
                    done_before, ck, hashed >>

\* Lines 490-492: one iteration of the loop of phase 2.
Phase2_Extract ==
    /\ pc = "phase2"
    /\ \E outcome \in ExtractOutcomes(book, pdfs[book]) :
         LET r == extract_text_from_pdf(book, pdfs[book], texts[book], outcome)
             opened == texts[book] = << >> /\ pdfs[book] # "absent"
             cost == IF opened THEN ExtractFaults(pdfs[book], outcome) ELSE 0
         IN  /\ ~opened => outcome = [ opens |-> FALSE, pages |-> 0, read |-> {} ]
             /\ faults + cost <= MaxFaults
             /\ faults' = faults + cost
             /\ texts' = [ texts EXCEPT ![book] = r.text ]
             /\ calls' = calls \o r.calls
                            \o << Call("extract_text_from_pdf", Name(book), 0, r.ok, << >>) >>
             /\ extraction_count' = IF r.ok THEN extraction_count + 1 ELSE extraction_count
             /\ IF r.raised THEN pc' = "crashed" /\ book' = book
                ELSE IF book = NumBooks THEN pc' = "phase3" /\ book' = 1
                ELSE pc' = pc /\ book' = book + 1
    /\ UNCHANGED << OPENAI_API_KEY, PINECONE_API_KEY, dirs, pdfs, index, i, chunks,
                    download_count, processed_count, summary, run, start,
                    done_before, ck, hashed >>

\* Lines 501 and 507: the next book of phase 3, or the summary.
NextBook ==
    /\ IF book = NumBooks THEN pc' = "summary" /\ book' = book
       ELSE pc' = "phase3" /\ book' = book + 1
    /\ i' = 0
    /\ chunks' = << >>

\* Lines 501-503: a book with no text file is passed over.
Phase3_Skip ==
    /\ pc = "phase3"
    /\ texts[book] = << >>
    /\ NextBook
    /\ UNCHANGED << OPENAI_API_KEY, PINECONE_API_KEY, dirs, pdfs, texts, index,
                    download_count, extraction_count, processed_count, summary,
                    calls, run, faults, start, done_before, ck, hashed >>

\* Lines 504, 425-446 and 365-372: process_textbook_to_embeddings reads and
\* chunks the text and upsert_to_pinecone connects to the index; a failure to
\* connect is caught at line 411 and the book is given up.
Phase3_Process ==
    /\ pc = "phase3"
    /\ texts[book] # << >>
    /\ \E connects \in BOOLEAN :
         /\ ~connects => faults < MaxFaults
         /\ faults' = IF connects THEN faults ELSE faults + 1
         /\ IF connects
            THEN /\ pc' = "upserting"
                 /\ book' = book
                 /\ i' = 0
                 /\ chunks' = Chunked(book, texts[book][1])
                 /\ calls' = calls \o << Call("connect", Name(book), 0, TRUE, << >>) >>
                 /\ processed_count' = processed_count
            ELSE /\ NextBook
                 /\ calls' = calls \o << Call("connect", Name(book), 0, FALSE, << >>),
                                         Call("process_textbook_to_embeddings", Name(book),
                                              0, FALSE, << >>) >>
                 /\ processed_count' = processed_count
    /\ UNCHANGED << OPENAI_API_KEY, PINECONE_API_KEY, dirs, pdfs, texts, index,
                    download_count, extraction_count, summary, run, start,
                    done_before, ck, hashed >>

\* Lines 374-404: one batch.  Its chunks are embedded; the vectors, if there
\* are any, go to the index in one upsert call.  A failed upsert raises: line
\* 411 catches it and upsert_to_pinecone returns False.
Batch ==
    /\ pc = "upserting"
    /\ i < Len(chunks)
    /\ LET last == IF i + batch_size > Len(chunks) THEN Len(chunks) ELSE i + batch_size
           batch == SubSeq(chunks, i + 1, last)
       IN  \E failing \in SUBSET (0..MaxFailOffset), upsert_ok \in BOOLEAN :
             LET acc == EmbedBatch(BatchStart, batch, 1, Len(batch), i, failing)
                 cost == Cardinality(failing) + (IF upsert_ok THEN 0 ELSE 1)
             IN  /\ failing \subseteq 0..(Len(batch) - 1)
                 /\ acc.vectors = << >> => upsert_ok
                 /\ faults + cost <= MaxFaults
                 /\ faults' = faults + cost
                 /\ IF acc.vectors = << >>
                    THEN /\ calls' = calls \o acc.calls
                         /\ i' = i + batch_size
                         /\ UNCHANGED << index, pc, book, chunks, processed_count >>
                    ELSE IF upsert_ok
                    THEN /\ index' = Upserted(index, acc.vectors)
                         /\ calls' = calls \o acc.calls
                                \o << Call("upsert", Name(book), i, TRUE, acc.vectors) >>
                         /\ i' = i + batch_size
                         /\ UNCHANGED << pc, book, chunks, processed_count >>
                    ELSE /\ index' = index
                         /\ calls' = calls \o acc.calls
                                \o << Call("upsert", Name(book), i, FALSE, acc.vectors),
                                      Call("process_textbook_to_embeddings", Name(book),
                                           0, FALSE, << >>) >>
                         /\ processed_count' = processed_count
                         /\ NextBook
    /\ UNCHANGED << OPENAI_API_KEY, PINECONE_API_KEY, dirs, pdfs, texts,
                    download_count, extraction_count, summary, run, start,
                    done_before, ck, hashed >>

\* Lines 406-409 and 448-453: after the last batch, the index's statistics;
\* upsert_to_pinecone returns True unless that call raises.
Stats ==
    /\ pc = "upserting"
    /\ i >= Len(chunks)
    /\ \E answered \in BOOLEAN :
         /\ ~answered => faults < MaxFaults
         /\ faults' = IF answered THEN faults ELSE faults + 1
         /\ calls' = calls \o << Call("stats", Name(book), 0, answered, << >>),
                                 Call("process_textbook_to_embeddings", Name(book),
                                      0, answered, << >>) >>
         /\ processed_count' = IF answered THEN processed_count + 1 ELSE processed_count
    /\ NextBook
    /\ UNCHANGED << OPENAI_API_KEY, PINECONE_API_KEY, dirs, pdfs, texts, index,
                    download_count, extraction_count, summary, run, start,
                    done_before, ck, hashed >>

RECURSIVE TotalChars(_, _)
TotalChars(t, n) ==
    IF n = 0 THEN 0
    ELSE TotalChars(t, n - 1) + (IF t[n] = << >> THEN 0 ELSE Len(t[n][1]))

\* Lines 507-521: the final summary.
Summary ==
    /\ pc = "summary"
    /\ pc' = "done"
    /\ summary' = << [ downloaded |-> download_count, extracted |-> extraction_count,
                       processed |-> processed_count,
                       total_chars |-> TotalChars(texts, NumBooks) ] >>
    /\ UNCHANGED << OPENAI_API_KEY, PINECONE_API_KEY, dirs, pdfs, texts, index, book, i,
                    chunks, download_count, extraction_count, processed_count,
                    calls, run, faults, start, done_before, ck, hashed >>

\* main() is run again: after it returned, or after the process was killed
\* between two steps.  The files and the index are what the last run left.
Restart ==
    /\ pc # "start"
    /\ run < MaxRuns
    /\ pc \notin {"done", "aborted", "crashed"} => faults < MaxFaults
    /\ faults' = IF pc \in {"done", "aborted", "crashed"} THEN faults ELSE faults + 1
    /\ run' = run + 1
    /\ pc' = "start"
    /\ book' = 1
    /\ i' = 0
    /\ chunks' = << >>
    /\ download_count' = 0
    /\ extraction_count' = 0
    /\ processed_count' = 0
    /\ summary' = << >>
    /\ calls' = << >>
    /\ start' = Found(texts, index)
    /\ done_before' = done_before \cup ProcessedInFull(calls, texts)
    /\ UNCHANGED << OPENAI_API_KEY, PINECONE_API_KEY, dirs, pdfs, texts, index, ck,
                    hashed >>

(***************************************************************************)
(* One call of chunk_text, step by step.                                   *)
(***************************************************************************)
\* The texts' lengths run up to 100 * MaxInputUnits + 1.
MaxInputUnits == 28

\* No call of chunk_text under way.
CkIdle ==
    [ pc |-> "idle", text |-> "", book_name |-> "", clean_text_content |-> "",
      paragraphs |-> << >>, v |-> LoopStart, f |-> FallbackStart, i |-> 0,
      chunks |-> << >> ]

\* The texts chunk_text is given: prose, prose under a heading and broken
\* into paragraphs, and one unbroken run of letters, of every length that is
\* a multiple of 100 or next to one.
InputLengths ==
    { n \in { (100 * u) + d : u \in 0..MaxInputUnits, d \in {-1, 0, 1} } : n >= 0 }

RECURSIVE Paragraphs(_)
Paragraphs(n) ==
    IF n <= 400 THEN Prose(n)
    ELSE Prose(398) \o "\n\n" \o Paragraphs(n - 400)

Input(shape, n) ==
    CASE shape = "prose" -> Prose(n)
      [] shape = "paragraphs" -> Slice("CHAPTER 1\n\n" \o Paragraphs(n), 0, n)
      [] shape = "letters" -> Repeat("a", n)

\* The size test_chunking.py calls oversized (its line 45).
OversizedAbove == 8000

\* Texts that are one heading and nothing else: each way the heading test of
\* lines 219-223 can pass, and a line that passes it in two ways.
HeadingInputs ==
    { "CHAPTER 1", "Chapter 3 Section 2", "Section 2.1 Fractions",
      "1. Whole Numbers", "WHOLE NUMBERS" }

\* Two paragraphs of prose under no heading, that one chunk cannot hold; and
\* a text longer than the size test_chunking.py looks for.
LongInputs ==
    { Prose(600) \o "\n\n" \o Prose(600), Prose(298) \o "\n\n" \o Prose(900),
      Prose(OversizedAbove + 100) }

ChunkInputs ==
    { Input(shape, n) : shape \in {"prose", "paragraphs", "letters"},
                        n \in InputLengths }
        \cup HeadingInputs \cup LongInputs

\* Lines 202-211.
CT_Clean ==
    /\ ck.pc = "start"
    /\ ck' = [ ck EXCEPT !.pc = "loop",
                         !.clean_text_content = clean_text(ck.text),
                         !.paragraphs = SplitParagraphs(clean_text(ck.text)),
                         !.v = LoopStart ]
    /\ UNCHANGED pipeline_vars

\* Lines 213-270: one paragraph.
CT_Paragraph ==
    /\ ck.pc = "loop"
    /\ ck.paragraphs # << >>
    /\ ck' = [ ck EXCEPT !.v = ParagraphStep(ck.v, Head(ck.paragraphs), ck.book_name),
                         !.paragraphs = Tail(ck.paragraphs) ]
    /\ UNCHANGED pipeline_vars

\* Lines 272-282.
CT_FinalFlush ==
    /\ ck.pc = "loop"
    /\ ck.paragraphs = << >>
    /\ ck' = [ ck EXCEPT !.pc = "flushed",
                         !.v = FinalFlush(ck.v, ck.book_name),
                         !.chunks = FinalFlush(ck.v, ck.book_name).chunks ]
    /\ UNCHANGED pipeline_vars

\* Lines 285-288 and 306: fall back, or return the paragraphs' chunks.
CT_Decide ==
    /\ ck.pc = "flushed"
    /\ ck' = IF NeedsFallback(ck.chunks, ck.clean_text_content)
             THEN [ ck EXCEPT !.pc = "fallback", !.f = FallbackStart, !.i = 0,
                              !.chunks = << >> ]
             ELSE [ ck EXCEPT !.pc = "returned" ]
    /\ UNCHANGED pipeline_vars

\* Lines 291-304: one window.
CT_Window ==
    /\ ck.pc = "fallback"
    /\ ck.i < Len(ck.clean_text_content)
    /\ ck' = [ ck EXCEPT !.f = FallbackStep(ck.f, ck.clean_text_content, ck.i, ck.book_name),
                         !.chunks = FallbackStep(ck.f, ck.clean_text_content, ck.i,
                                                 ck.book_name).chunks,
                         !.i = ck.i + (CHUNK_SIZE - CHUNK_OVERLAP) ]
    /\ UNCHANGED pipeline_vars

\* Line 306, after the fallback.
CT_Return ==
    /\ ck.pc = "fallback"
    /\ ck.i >= Len(ck.clean_text_content)
    /\ ck' = [ ck EXCEPT !.pc = "returned" ]
    /\ UNCHANGED pipeline_vars

(***************************************************************************)
(* Two calls of generate_chunk_id, step by step.                           *)
(***************************************************************************)
\* No call of generate_chunk_id under way.
HashIdle == [ pc |-> "idle", given |-> << >>, ids |-> << >> ]

\* The chunk_id values, the texts and the passages generate_chunk_id is
\* given: texts that are equal over their first 100 characters, texts that
\* differ at the 100th, and texts that begin the way str(chunk_id) and the
\* separator of line 352 end.
HashChunkIds == {0, 1, 12}

HashTexts ==
    { Repeat("a", 120), Repeat("a", 100) \o Repeat("b", 20),
      Repeat("a", 99) \o "b" \o Repeat("a", 20), "x", "2_x", "_2_x" }

HashInputs ==
    { Chunk(text, TEXTBOOK_URLS[b], "Introduction", "", chunk_id) :
          text \in HashTexts, b \in 1..Len(TEXTBOOK_URLS), chunk_id \in HashChunkIds }

\* Line 387, vector_id = generate_chunk_id(chunk), for the next of the two.
Hash_Generate ==
    /\ hashed.pc = "start"
    /\ Len(hashed.ids) < Len(hashed.given)
    /\ hashed' = [ hashed EXCEPT
                     !.ids = Append(hashed.ids,
                                    generate_chunk_id(hashed.given[Len(hashed.ids) + 1])) ]
    /\ UNCHANGED << OPENAI_API_KEY, PINECONE_API_KEY, dirs, pdfs, texts, index, pc,
                    book, i, chunks, download_count, extraction_count,
                    processed_count, summary, calls, run, faults, start,
                    done_before, ck >>

\* Both ids are there.
Hash_Return ==
    /\ hashed.pc = "start"
    /\ Len(hashed.ids) = Len(hashed.given)
    /\ hashed' = [ hashed EXCEPT !.pc = "returned" ]
    /\ UNCHANGED << OPENAI_API_KEY, PINECONE_API_KEY, dirs, pdfs, texts, index, pc,
                    book, i, chunks, download_count, extraction_count,
                    processed_count, summary, calls, run, faults, start,
                    done_before, ck >>

(***************************************************************************)
(* The specifications.                                                     *)
(***************************************************************************)
\* The pipeline starts on a disk that holds nothing, or the full text of some
\* books and no PDF; the index is empty.
Init ==
    /\ OPENAI_API_KEY \in BOOLEAN
    /\ PINECONE_API_KEY \in BOOLEAN
    /\ \E kept \in SUBSET Books :
         /\ texts = [ b \in Books |-> IF b \in kept THEN << FullText(b) >> ELSE << >> ]
         /\ dirs = (kept # {})
    /\ pdfs = [ b \in Books |-> "absent" ]
    /\ index = {}
    /\ pc = "start"
    /\ book = 1
    /\ i = 0
    /\ chunks = << >>
    /\ download_count = 0
    /\ extraction_count = 0
    /\ processed_count = 0
    /\ summary = << >>
    /\ calls = << >>
    /\ run = 1
    /\ faults = 0
    /\ start = Found(texts, index)
    /\ done_before = {}
    /\ ck = CkIdle
    /\ hashed = HashIdle

\* The steps of one run of main().
Step ==
    \/ Main_Start
    \/ Phase1_Download
    \/ Phase2_Extract
    \/ Phase3_Skip
    \/ Phase3_Process
    \/ Batch
    \/ Stats
    \/ Summary

Next == Step \/ Restart

Spec == Init /\ [][Next]_vars

\* main() has a step to take: it has not returned and no exception has ended it.
Running == pc \notin {"done", "aborted", "crashed"}

\* One run of main() that is not killed: the interpreter takes the run's next
\* step as long as there is one.  The last conjunct is weak fairness of Step,
\* with Running for the condition that a step is enabled.
RunSpec == Init /\ [][Step]_vars /\ ([]<>~Running \/ []<><<Step>>_vars)

ChunkInit ==
    /\ OPENAI_API_KEY = TRUE
    /\ PINECONE_API_KEY = TRUE
    /\ dirs = FALSE
    /\ pdfs = [ b \in Books |-> "absent" ]
    /\ texts = [ b \in Books |-> << >> ]
    /\ index = {}
    /\ pc = "idle"
    /\ book = 1
    /\ i = 0
    /\ chunks = << >>
    /\ download_count = 0
    /\ extraction_count = 0
    /\ processed_count = 0
    /\ summary = << >>
    /\ calls = << >>
    /\ run = 1
    /\ faults = 0
    /\ start = Found(texts, index)
    /\ done_before = {}
    /\ \E text \in ChunkInputs, b \in Books :
         ck = [ CkIdle EXCEPT !.pc = "start", !.text = text, !.book_name = Name(b) ]
    /\ hashed = HashIdle

ChunkNext ==
    \/ CT_Clean
    \/ CT_Paragraph
    \/ CT_FinalFlush
    \/ CT_Decide
    \/ CT_Window
    \/ CT_Return

ChunkSpec == ChunkInit /\ [][ChunkNext]_vars

HashInit ==
    /\ OPENAI_API_KEY = TRUE
    /\ PINECONE_API_KEY = TRUE
    /\ dirs = FALSE
    /\ pdfs = [ b \in Books |-> "absent" ]
    /\ texts = [ b \in Books |-> << >> ]
    /\ index = {}
    /\ pc = "start"
    /\ book = 1
    /\ i = 0
    /\ chunks = << >>
    /\ download_count = 0
    /\ extraction_count = 0
    /\ processed_count = 0
    /\ summary = << >>
    /\ calls = << >>
    /\ run = 1
    /\ faults = 0
    /\ start = Found(texts, index)
    /\ done_before = {}
    /\ ck = CkIdle
    /\ \E first \in HashInputs, second \in HashInputs :
         hashed = [ HashIdle EXCEPT !.pc = "start", !.given = << first, second >> ]

HashNext ==
    \/ Hash_Generate
    \/ Hash_Return

HashSpec == HashInit /\ [][HashNext]_vars

(***************************************************************************)
(* What a run's log shows.                                                 *)
(***************************************************************************)
\* The positions in the log of the calls named in ops that are for book b.
Events(b, ops) ==
    { n \in 1..Len(calls) : calls[n].book = Name(b) /\ calls[n].op \in ops }

\* The passages of book b, as chunk_text cuts its text file.
Passages(b) == Chunked(b, texts[b][1])

\* The records the index holds for book b.
Stored(b) == { r \in index : r.metadata.book = Name(b) }

\* The (id, vector, metadata) triple of a passage whose embedding succeeded.
Triple(chunk) ==
    [ id |-> generate_chunk_id(chunk),
      values |-> Embedding(IF Len(chunk.text) \div 4 > max_tokens
                           THEN Slice(chunk.text, 0, max_tokens * 4) ELSE chunk.text),
      metadata |-> [ book |-> chunk.metadata.book,
                     chapter |-> chunk.metadata.chapter,
                     section |-> chunk.metadata.section,
                     chunk_id |-> chunk.metadata.chunk_id,
                     text |-> Slice(chunk.text, 0, 1000) ] ]

\* main() has called download_pdf and extract_text_from_pdf for book b, and
\* process_textbook_to_embeddings if b has a text file.
Handled(b) ==
    /\ Events(b, {"download_pdf"}) # {}
    /\ Events(b, {"extract_text_from_pdf"}) # {}
    /\ texts[b] # << >> => Events(b, {"process_textbook_to_embeddings"}) # {}

(***************************************************************************)
(* The claims.                                                             *)
(***************************************************************************)
\* C1 -- Resume.  A run that found a book's text file and an empty index
\* issues no fetch and no extraction for that book (whether or not the
\* book's PDF exists), and has processed the book when it is done.
C1_Resume ==
    \A b \in start.texts :
        start.index_empty =>
            /\ Events(b, {"fetch", "open_pdf"}) = {}
            /\ pc = "done" => Events(b, {"process_textbook_to_embeddings"}) # {}

\* C2 -- A checkpoint artifact exists only if its stage completed.  Between
\* any two operations, a PDF file that is present is the whole body of a
\* fetch that succeeded.
C2_CheckpointComplete ==
    \A b \in Books : pdfs[b] # "absent" => pdfs[b] = "complete"

\* C3 -- No duplicates accumulate.  After any number of runs, complete or
\* interrupted, the records the index holds for a book are at most one per
\* passage of the book's text, each under the id every run computes for that
\* passage, and no more than the book has passages.
C3_NoDuplicates ==
    \A b \in Books :
        IF texts[b] = << >> THEN Stored(b) = {}
        ELSE /\ Cardinality(Stored(b)) <= Len(Passages(b))
             /\ \A r \in Stored(b) :
                    /\ r.metadata.chunk_id < Len(Passages(b))
                    /\ r.id = generate_chunk_id(Passages(b)[r.metadata.chunk_id + 1])
             /\ \A r1, r2 \in Stored(b) :
                    r1.metadata.chunk_id = r2.metadata.chunk_id => r1 = r2

\* A later run has upserted again, with success, passages of a book that an
\* earlier run had processed in full.
C3_Witness ==
    /\ run > 1
    /\ \E b \in done_before : \E n \in Events(b, {"upsert"}) : calls[n].ok
    /\ \E b \in done_before : Cardinality(Stored(b)) = Len(Passages(b))

\* C4 -- A restarted run does not redo completed work.  For a book that an
\* earlier run processed in full, a run issues no embedding call and no
\* upsert call.
C4_NoRedo ==
    \A b \in done_before : Events(b, {"embed", "upsert"}) = {}

\* C5 -- Batch-level failure isolation.  When a run is done, after each
\* upsert call that failed, every later batch of the same book has been
\* embedded, and every later book has been handled.
C5_BatchIsolation ==
    pc = "done" =>
        \A b \in Books : \A n \in Events(b, {"upsert"}) :
            ~calls[n].ok =>
                /\ \A k \in (calls[n].at + batch_size)..(Len(Passages(b)) - 1) :
                       \E m \in Events(b, {"embed"}) : m > n /\ calls[m].at = k
                /\ \A later \in Books : later > b => Handled(later)

\* C6 -- Document-level failure isolation.  A run that is not killed, once
\* past the check of the keys, reaches its final summary, and by then it has
\* called the fetch, the extraction and (where there is a text file) the
\* processing of every book, whichever of these calls failed.
C6_DocumentIsolation ==
    /\ [](pc = "done" => (summary # << >> /\ \A b \in Books : Handled(b)))
    /\ ((pc = "phase1") ~> (pc = "done"))

\* The run is done, a call for one book failed, and the processing of a
\* later book succeeded.
C6_Witness ==
    /\ pc = "done"
    /\ \E b1, b2 \in Books :
         /\ b1 < b2
         /\ \E n \in Events(b1, {"download_pdf", "extract_text_from_pdf",
                                 "process_textbook_to_embeddings"}) : ~calls[n].ok
         /\ \E n \in Events(b2, {"process_textbook_to_embeddings"}) : calls[n].ok

\* C7 -- Embedding-failure isolation.  Every upsert call carries exactly the
\* triples of the passages of its batch whose embedding call succeeded, in
\* the passages' order, and no batch has two upsert calls.
C7_EmbeddingIsolation ==
    \A b \in Books : \A n \in Events(b, {"upsert"}) :
        LET first == calls[n].at
            size == IF first + batch_size > Len(Passages(b))
                    THEN Len(Passages(b)) - first ELSE batch_size
            Embedded(k) == \E m \in Events(b, {"embed"}) :
                               m < n /\ calls[m].at = k /\ calls[m].ok
            kept == SelectSeq([ k \in 1..size |-> first + k - 1 ], Embedded)
        IN  /\ first % batch_size = 0
            /\ calls[n].vectors = [ k \in 1..Len(kept) |-> Triple(Passages(b)[kept[k] + 1]) ]
            /\ \A m \in Events(b, {"upsert"}) : calls[m].at = first => m = n

\* An upsert call was made for a batch one of whose passages failed to embed.
C7_Witness ==
    \E b \in Books : \E n \in Events(b, {"upsert"}) :
        /\ calls[n].vectors # << >>
        /\ \E m \in Events(b, {"embed"}) :
               /\ m < n
               /\ ~calls[m].ok
               /\ calls[m].at >= calls[n].at
               /\ calls[m].at < calls[n].at + batch_size

\* C8 -- A missing credential is fatal before any work.  With either key
\* absent, a run makes no call at all (no fetch, extraction, embedding or
\* index call), leaves the files and the index as they were and ends at the
\* check of the keys.
C8_MissingCredential ==
    (~OPENAI_API_KEY \/ ~PINECONE_API_KEY) =>
        /\ calls = << >>
        /\ pc \in {"start", "aborted"}
        /\ index = {}
        /\ \A b \in Books : pdfs[b] = "absent" /\ (b \in start.texts <=> texts[b] # << >>)

\* A run has ended at the check of the keys with only the second key absent.
C8_Witness ==
    pc = "aborted" /\ OPENAI_API_KEY /\ ~PINECONE_API_KEY

\* C9 -- Stage progress only moves forward.  No step of any run changes a PDF
\* file or a text file that exists.
C9_ForwardOnly ==
    [][\A b \in Books :
           /\ pdfs[b] # "absent" => pdfs'[b] = pdfs[b]
           /\ texts[b] # << >> => texts'[b] = texts[b]]_vars

\* A later run has called download_pdf and extract_text_from_pdf for a book
\* whose PDF file and text file exist.
C9_Witness ==
    /\ run > 1
    /\ \E b \in Books :
         /\ pdfs[b] # "absent"
         /\ texts[b] # << >>
         /\ Events(b, {"download_pdf"}) # {}
         /\ Events(b, {"extract_text_from_pdf"}) # {}

\* C10 -- The passages chunk_text returns carry the chunk_id values 0, 1,
\* ..., n-1 in list order.
C10_ChunkIds ==
    ck.pc = "returned" =>
        \A k \in 1..Len(ck.chunks) : ck.chunks[k].metadata.chunk_id = k - 1

\* chunk_text has returned three passages or more.
C10_Witness ==
    ck.pc = "returned" /\ Len(ck.chunks) >= 3

(***************************************************************************)
(* What chunk_text's paragraph pass emits (lines 213-282).  Line 174 turns *)
(* every run of whitespace, line breaks included, into one space, so the   *)
(* split of line 206 hands the loop one paragraph: the flushes of lines    *)
(* 226 and 251 find an empty accumulator and only line 273 ever emits.     *)
(***************************************************************************)
\* C11 -- Every passage the paragraph pass emits, at a heading, at an
\* overflow or as the last one, has at least MIN_CHUNK_SIZE characters.
C11_MinimumSize ==
    \A k \in 1..Len(ck.v.chunks) : Len(ck.v.chunks[k].text) >= MIN_CHUNK_SIZE

\* The paragraph pass has emitted a passage of exactly MIN_CHUNK_SIZE
\* characters.
C11_Witness ==
    /\ ck.pc = "flushed"
    /\ \E k \in 1..Len(ck.v.chunks) : Len(ck.v.chunks[k].text) = MIN_CHUNK_SIZE

\* C12 -- clean_text collapses only whitespace within a line: the blank
\* lines between the non-empty paragraphs of a text survive it, and the split
\* of chunk_text finds as many paragraphs as the text had.
C12_SeparatorsSurvive ==
    ck.pc = "loop" =>
        Len(NonEmptyParagraphs(ck.clean_text_content))
            = Len(NonEmptyParagraphs(ck.text))

(***************************************************************************)
(* What chunk_text returns (lines 284-306).                                *)
(***************************************************************************)
\* C13 -- chunk_text returns the passages of the fallback exactly when the
\* paragraph pass gave fewer than 5 passages and the cleaned text is longer
\* than 2 * CHUNK_SIZE; otherwise it returns the passages of the paragraph
\* pass as they are.
C13_FallbackRule ==
    ck.pc = "returned" =>
        IF Len(ck.v.chunks) < 5 /\ Len(ck.clean_text_content) > 2 * CHUNK_SIZE
        THEN ck.chunks = FallbackLoop(FallbackStart, ck.clean_text_content, 0,
                                      Windows(ck.clean_text_content) - 1,
                                      ck.book_name).chunks
        ELSE ck.chunks = ck.v.chunks

\* chunk_text has returned the fallback's passages for a cleaned text of
\* 2 * CHUNK_SIZE + 1 characters, in place of the passage the paragraph pass
\* gave.
C13_Witness ==
    /\ ck.pc = "returned"
    /\ Len(ck.clean_text_content) = (2 * CHUNK_SIZE) + 1
    /\ Len(ck.v.chunks) = 1
    /\ ck.chunks = ck.f.chunks
    /\ ck.chunks # ck.v.chunks

\* C14 -- Under the fallback the passage with chunk_id k is the cleaned
\* text from k * (CHUNK_SIZE - CHUNK_OVERLAP) to CHUNK_SIZE characters further;
\* every passage but the last has CHUNK_SIZE characters; and no window of
\* MIN_CHUNK_SIZE characters or more is dropped.
C14_Windows ==
    (ck.pc = "returned" /\ ck.i > 0) =>
        LET stride == CHUNK_SIZE - CHUNK_OVERLAP
            Window(k) == Slice(ck.clean_text_content, k * stride,
                               (k * stride) + CHUNK_SIZE)
        IN  /\ \A n \in 1..Len(ck.chunks) :
                  ck.chunks[n].text = Window(ck.chunks[n].metadata.chunk_id)
            /\ \A n \in 1..(Len(ck.chunks) - 1) :
                  Len(ck.chunks[n].text) = CHUNK_SIZE
            /\ \A k \in 0..(Windows(ck.clean_text_content) - 1) :
                  Len(Window(k)) >= MIN_CHUNK_SIZE =>
                      \E n \in 1..Len(ck.chunks) :
                          /\ ck.chunks[n].metadata.chunk_id = k
                          /\ ck.chunks[n].text = Window(k)

\* The fallback has returned a last passage shorter than CHUNK_SIZE.
C14_Witness ==
    /\ ck.pc = "returned"
    /\ ck.i > 0
    /\ Len(ck.chunks) >= 3
    /\ Len(ck.chunks[Len(ck.chunks)].text) < CHUNK_SIZE

(***************************************************************************)
(* generate_chunk_id (lines 342-353).                                      *)
(***************************************************************************)
\* C15 -- generate_chunk_id gives two passages the same id when they have
\* the same book, chunk_id and first 100 characters of text, and hashes two
\* different strings when they differ in one of the three.
C15_IdInjective ==
    hashed.pc = "returned" =>
        LET a == hashed.given[1]
            b == hashed.given[2]
            alike == /\ a.metadata.book = b.metadata.book
                     /\ a.metadata.chunk_id = b.metadata.chunk_id
                     /\ Slice(a.text, 0, 100) = Slice(b.text, 0, 100)
        IN  alike <=> (hashed.ids[1] = hashed.ids[2])

\* Ids were computed for two passages of one book and one chunk_id whose
\* texts first differ at the 100th character, and for none other.
C15_Witness ==
    /\ hashed.pc = "returned"
    /\ hashed.given[1].metadata = hashed.given[2].metadata
    /\ Slice(hashed.given[1].text, 0, 99) = Slice(hashed.given[2].text, 0, 99)
    /\ hashed.ids[1] # hashed.ids[2]

\* C16 -- No passage chunk_text returns has more characters than the size
\* test_chunking.py calls oversized.
C16_NotOversized ==
    ck.pc = "returned" =>
        \A k \in 1..Len(ck.chunks) : Len(ck.chunks[k].text) <= OversizedAbove

\* chunk_text has returned passages for a text of more characters than that
\* size, which the cleaning left in one paragraph.
C16_Witness ==
    /\ ck.pc = "returned"
    /\ Len(ck.clean_text_content) > OversizedAbove
    /\ Len(NonEmptyParagraphs(ck.clean_text_content)) = 1
    /\ ck.chunks # << >>

\* C17 -- No passage chunk_text returns contains the text of a paragraph of
\* its input that passes the heading test.
C17_NoHeadingText ==
    ck.pc = "returned" =>
        \A n \in 1..Len(NonEmptyParagraphs(ck.text)) :
            LET paragraph == Strip(NonEmptyParagraphs(ck.text)[n])
            IN  IsHeading(paragraph) =>
                    \A k \in 1..Len(ck.chunks) :
                        ~Contains(ck.chunks[k].text, paragraph)

(***************************************************************************)
(* The loop over the paragraphs (lines 213-282).                           *)
(***************************************************************************)
\* C18 -- The paragraph pass loses no paragraph before its end: once the
\* loop has taken a paragraph that is not a heading, the paragraph is whole
\* in a passage emitted or in the accumulator, and after the last flush it is
\* whole in a passage emitted unless the accumulator that held it was
\* dropped for being shorter than MIN_CHUNK_SIZE.
C18_NoParagraphLost ==
    LET taken == NonEmptyParagraphs(ck.clean_text_content)
        Emitted(paragraph) ==
            \E k \in 1..Len(ck.v.chunks) : Contains(ck.v.chunks[k].text, paragraph)
    IN  \A n \in 1..Len(taken) :
            LET paragraph == Strip(taken[n])
            IN  ~IsHeading(paragraph) =>
                    /\ (ck.pc = "loop" /\ ck.paragraphs = << >>) =>
                           \/ Emitted(paragraph)
                           \/ Contains(ck.v.current_chunk, paragraph)
                    /\ ck.pc \in {"flushed", "fallback", "returned"} =>
                           \/ Emitted(paragraph)
                           \/ /\ Contains(ck.v.current_chunk, paragraph)
                              /\ Len(Strip(ck.v.current_chunk)) < MIN_CHUNK_SIZE

\* The pass has emitted, whole, a paragraph that no chunk of CHUNK_SIZE
\* characters holds: it was added to an empty accumulator by lines 266-268.
C18_Witness ==
    /\ ck.pc = "flushed"
    /\ Len(ck.v.chunks) = 1
    /\ Len(ck.v.chunks[1].text) > CHUNK_SIZE
    /\ ck.v.chunks[1].text = Strip(ck.clean_text_content)

C20_HeadingFrame ==
    [][( /\ ck.pc = "loop"
         /\ ck.paragraphs # << >>
         /\ IsHeading(Strip(Head(ck.paragraphs))) )
       => LET paragraph == Strip(Head(ck.paragraphs))
          IN  /\ Contains(Lower(paragraph), "chapter") =>
                     /\ ck'.v.current_chapter = paragraph
                     /\ ck'.v.current_section = ck.v.current_section
              /\ ~Contains(Lower(paragraph), "chapter") =>
                     /\ ck'.v.current_section = paragraph
                     /\ ck'.v.current_chapter = ck.v.current_chapter
              /\ Len(ck.v.current_chunk) < MIN_CHUNK_SIZE =>
                     /\ ck'.v.current_chunk = ck.v.current_chunk
                     /\ ck'.v.chunks = ck.v.chunks
                     /\ ck'.v.chunk_count = ck.v.chunk_count]_vars

\* The loop has taken a heading that contains "chapter" and "section".
C20_Witness ==
    /\ ck.pc = "loop"
    /\ ck.paragraphs = << >>
    /\ ck.v.current_chapter = Strip(ck.clean_text_content)
    /\ Contains(Lower(ck.v.current_chapter), "chapter")
    /\ Contains(Lower(ck.v.current_chapter), "section")

(***************************************************************************)
(* The pacing of the embedding calls (lines 380-398).                      *)
(***************************************************************************)
\* C21 -- Between any two consecutive embedding calls of one call of
\* upsert_to_pinecone, in one batch or across two, after a success or after
\* a failure, there is a pacing delay.
C21_Pacing ==
    \A b \in Books :
        LET embeds == Events(b, {"embed"})
        IN  \A m \in embeds, n \in embeds :
                (m < n /\ ~\E j \in embeds : m < j /\ j < n) =>
                    \E k \in (m + 1)..(n - 1) : calls[k].op = "sleep"

====
